---- MODULE Spec2Model ----
(***************************************************************************)
(* Model of the gha-test GitHub action (src/unnamed/part_000): the run()   *)
(* pipeline that fetches an OIDC token, validates the region, assumes a    *)
(* role under retryAndBackoff, presigns GetCallerIdentity, exchanges the   *)
(* presigned URL with the broker and exports the credentials.              *)
(*                                                                         *)
(* Strings are sequences of one-character strings.  A JavaScript value     *)
(* that is undefined is UNDEF.  Objects are functions from key names to    *)
(* values, so that `delete o.k` removes k from the domain.                 *)
(***************************************************************************)
EXTENDS Integers, Sequences, FiniteSets, TLC

VARIABLES
  pc,             \* position of run(): the await it is suspended at, or Done / Failed
  inputs,         \* what core.getInput returns for each input name
  env,            \* process.env as the process was started
  fs,             \* the file system: path -> "absent" | "unreadable" | "present"
  oidc,           \* what core.getIDToken resolves to (or that it rejects)
  params,         \* the params object handed to assumeRole
  rb,             \* the frame of retryAndBackoff: retries, maxRetries, isRetryable, base, state
  fnFails,        \* SpecRetry's operation: how many of its first invocations fail (-1: all)
  calls,          \* invocations of fn made by retryAndBackoff
  sleepCount,     \* invocations of sleep
  lastSleep,      \* argument of the latest sleep, in ms
  issued,         \* what the latest assumeRole invocation did: the error it threw or the command it sent
  log,            \* calls made to the outside, in order: network, presign, core.*
  initialCredentials,  \* run's initialCredentials
  credentials,         \* run's credentials (line 306)
  url,            \* run's url
  failed          \* the message handed to core.setFailed

vars == <<pc, inputs, env, fs, oidc, params, rb, fnFails, calls, sleepCount,
          lastSleep, issued, log, initialCredentials, credentials, url, failed>>

----------------------------------------------------------------------------
(* Bounds of the model *)

\* SpecRetry: the scripted operation fails its first 0..MaxFailures invocations, or all of them
MaxFailures == 4
\* SpecRetry: maxRetries ranges over 0..MaxMaxRetries
MaxMaxRetries == 12
\* SpecRetry: the initial retries ranges over 0..MaxInitialRetries
MaxInitialRetries == 2
\* SpecRetry: a frame that would recurse for ever is followed for at most CallCap invocations
CallCap == 14
\* Math.random() is one of 0/RandomSteps .. (RandomSteps-1)/RandomSteps
RandomSteps == 2

----------------------------------------------------------------------------
(* Values *)

UNDEF == <<"undefined">>

\* line 51: !!i, for a string or undefined
isDefined(i) == i # UNDEF /\ i # <<>>

DEFAULT_ROLE_DURATION_FOR_OIDC_ROLES == <<"3", "6", "0", "0">>
ROLE_SESSION_NAME == <<"G", "H", "A">>
SANITIZATION_CHARACTER == "_"
DEFAULT_MAX_RETRIES == 12
DEFAULT_BASE == 50

\* an Error: its message is text followed by arg; attempt is the invocation of
\* retryAndBackoff's fn that raised it (0: raised outside retryAndBackoff)
Err(text, arg, attempt) == [text |-> text, arg |-> arg, attempt |-> attempt]
NoError == Err("", <<>>, 0)

\* a Credentials object (lines 37-41)
Credentials(a, s, t) == [accessKeyId |-> a, secretAccessKey |-> s, sessionToken |-> t]
NoCredentials == Credentials(UNDEF, UNDEF, UNDEF)

RECURSIVE Pow2(_)
Pow2(n) == IF n = 0 THEN 1 ELSE 2 * Pow2(n - 1)

----------------------------------------------------------------------------
(* retryAndBackoff, lines 186-201 *)

\* a frame of retryAndBackoff as called with (isRetryable, retries, maxRetries, base)
RbFrame(isRetryable, retries, maxRetries, base) ==
  [state |-> "call", isRetryable |-> isRetryable, retries |-> retries,
   retries0 |-> retries,     \* the retries argument of the outermost call
   maxRetries |-> maxRetries, base |-> base,
   result |-> NoCredentials, error |-> NoError]

RbIdle == [RbFrame(FALSE, 0, 0, 0) EXCEPT !.state = "idle"]

\* line 194: Math.random() * (Math.pow(2, retries) * base), rounded down to a ms
SleepMs(rnd, retries, base) == (rnd * (Pow2(retries) * base)) \div RandomSteps

\* line 196, a bug: the bound is tested one retry too early
Exhausted_early(retries, maxRetries) == retries >= maxRetries - 1

\* line 196, a bug: the bound is tested against the count before the increment
Exhausted_late(retries, maxRetries) == retries - 1 = maxRetries

\* line 196: retries === maxRetries, retries being the incremented count
Exhausted(retries, maxRetries) == retries = maxRetries

\* lines 186-201, a bug: isRetryable is not consulted
retryAndBackoff_alwaysRetry(ok, val, rnd) ==
  /\ rb.state = "call"
  /\ calls' = calls + 1
  /\ IF ok
       THEN /\ rb' = [rb EXCEPT !.state = "returned", !.result = val]
            /\ UNCHANGED <<sleepCount, lastSleep>>
       ELSE /\ sleepCount' = sleepCount + 1
            /\ lastSleep' = SleepMs(rnd, rb.retries, rb.base)
            /\ IF Exhausted(rb.retries + 1, rb.maxRetries)
                 THEN rb' = [rb EXCEPT !.retries = @ + 1, !.state = "thrown", !.error = val]
                 ELSE rb' = [rb EXCEPT !.retries = @ + 1]

\* One invocation of fn by retryAndBackoff and what follows it up to the next
\* invocation: fn() resolved (ok) with val or rejected with val; rnd is the
\* draw of Math.random().
retryAndBackoff(ok, val, rnd) ==
  /\ rb.state = "call"
  /\ calls' = calls + 1
  /\ IF ok
       THEN /\ rb' = [rb EXCEPT !.state = "returned", !.result = val]      \* line 188
            /\ UNCHANGED <<sleepCount, lastSleep>>
       ELSE IF ~rb.isRetryable
         THEN /\ rb' = [rb EXCEPT !.state = "thrown", !.error = val]       \* lines 190-192
              /\ UNCHANGED <<sleepCount, lastSleep>>
         ELSE /\ sleepCount' = sleepCount + 1                              \* line 194
              /\ lastSleep' = SleepMs(rnd, rb.retries, rb.base)
              /\ IF Exhausted(rb.retries + 1, rb.maxRetries)               \* lines 195-198
                   THEN rb' = [rb EXCEPT !.retries = @ + 1, !.state = "thrown", !.error = val]
                   ELSE rb' = [rb EXCEPT !.retries = @ + 1]                \* line 199

----------------------------------------------------------------------------
(* Strings, objects, paths *)

LowerLetters == {"a", "b", "c", "d", "e", "f", "g", "h", "i", "j", "k", "l", "m",
                 "n", "o", "p", "q", "r", "s", "t", "u", "v", "w", "x", "y", "z"}
UpperLetters == {"A", "B", "C", "D", "E", "F", "G", "H", "I", "J", "K", "L", "M",
                 "N", "O", "P", "Q", "R", "S", "T", "U", "V", "W", "X", "Y", "Z"}
Digits == {"0", "1", "2", "3", "4", "5", "6", "7", "8", "9"}

\* String.prototype.startsWith
startsWith(s, p) == Len(s) >= Len(p) /\ SubSeq(s, 1, Len(p)) = p

\* String.prototype.slice(0, n)
slice0(s, n) == SubSeq(s, 1, IF Len(s) < n THEN Len(s) ELSE n)

\* o.k, undefined when o has no key k
Get(o, k) == IF k \in DOMAIN o THEN o[k] ELSE UNDEF

\* delete o.k
Delete(o, k) == [x \in (DOMAIN o) \ {k} |-> o[x]]

\* Object.assign(o, {k: v})
Assign(o, k, v) == (k :> v) @@ o

\* path.isAbsolute (POSIX)
isAbsolute(p) == Len(p) > 0 /\ p[1] = "/"

\* path.join(a, b) of two normalised segments, a a string
join(a, b) == a \o <<"/">> \o b

\* the file at path p of file system f; a path f does not list is absent
NoFile == [exists |-> FALSE, readable |-> FALSE, content |-> <<>>]
FileAt(f, p) == IF p \in DOMAIN f THEN f[p] ELSE NoFile

----------------------------------------------------------------------------
(* Tag sanitizers, lines 59-72 *)

MAX_TAG_VALUE_LENGTH == 256

\* line 62: /\[|\]/
IsBracket(c) == c \in {"[", "]"}

\* line 62, a bug: the regex without the g flag replaces the first bracket only
sanitizeGithubActor_firstOnly(actor) ==
  [i \in 1..Len(actor) |->
     IF IsBracket(actor[i]) /\ \A j \in 1..(i - 1) : ~IsBracket(actor[j])
       THEN SANITIZATION_CHARACTER ELSE actor[i]]

\* actor.replace(/\[|\]/g, SANITIZATION_CHARACTER)
sanitizeGithubActor(actor) ==
  [i \in 1..Len(actor) |->
     IF IsBracket(actor[i]) THEN SANITIZATION_CHARACTER ELSE actor[i]]

\* line 69: the range .-@ of the character class, U+002E to U+0040
DotToAt == {".", "/"} \cup Digits \cup {":", ";", "<", "=", ">", "?", "@"}

\* line 69: the class [\p{L}\p{Z}\p{N}_:/=+.-@-]
InTagClass(c) ==
  \/ c \in LowerLetters \cup UpperLetters       \* \p{L}
  \/ c = " "                                    \* \p{Z}
  \/ c \in Digits                               \* \p{N}
  \/ c \in {"_", ":", "/", "=", "+"}
  \/ c \in DotToAt
  \/ c = "-"

sanitizeGithubWorkflowName(name) ==
  LET nameWithoutSpecialCharacters ==
        [i \in 1..Len(name) |->
           IF ~InTagClass(name[i]) THEN SANITIZATION_CHARACTER ELSE name[i]]
  IN  slice0(nameWithoutSpecialCharacters, MAX_TAG_VALUE_LENGTH)

----------------------------------------------------------------------------
(* assumeRole, lines 84-184 *)

ArnAws == <<"a", "r", "n", ":", "a", "w", "s">>
\* line 116, a bug: one colon is missing between the partition and the account
ArnIam_oneColon == <<"a", "r", "n", ":", "a", "w", "s", ":", "i", "a", "m", ":">>
ArnIam == <<"a", "r", "n", ":", "a", "w", "s", ":", "i", "a", "m", ":", ":">>
RoleSlash == <<":", "r", "o", "l", "e", "/">>

Tag(k, v) == [Key |-> k, Value |-> v]

\* lines 119-130
roleSessionTags(e) ==
  LET tags == << Tag("GitHub", <<"A", "c", "t", "i", "o", "n", "s">>),
                 Tag("Repository", e.GITHUB_REPOSITORY),
                 Tag("Workflow", sanitizeGithubWorkflowName(e.GITHUB_WORKFLOW)),
                 Tag("Action", e.GITHUB_ACTION),
                 Tag("Actor", sanitizeGithubActor(e.GITHUB_ACTOR)),
                 Tag("Commit", e.GITHUB_SHA) >>
  IN  IF isDefined(e.GITHUB_REF) THEN Append(tags, Tag("Branch", e.GITHUB_REF)) ELSE tags

\* what one invocation of assumeRole does: the error it throws, or the command
\* and request it hands to sts.send
NoOutcome == [kind |-> "none", error |-> NoError, command |-> "", request |-> <<>>]
Throw(e) == [NoOutcome EXCEPT !.kind = "throw", !.error = e]
Send(command, request) == [NoOutcome EXCEPT !.kind = "send", !.command = command, !.request = request]

\* lines 159-161
TokenFilePath(e, webIdentityTokenFile) ==
  IF isAbsolute(webIdentityTokenFile) THEN webIdentityTokenFile
  ELSE join(e.GITHUB_WORKSPACE, webIdentityTokenFile)

\* lines 155-174, a bug: the token-file branch forgets `delete assumeRoleRequest.Tags`
TokenFileOutcome_keepsTags(request, e, f, webIdentityTokenFile, k) ==
  LET file == FileAt(f, TokenFilePath(e, webIdentityTokenFile))
  IN  IF ~isAbsolute(webIdentityTokenFile) /\ e.GITHUB_WORKSPACE = UNDEF
        THEN Throw(Err("The \"path\" argument must be of type string. Received undefined", <<>>, k))
      ELSE IF ~file.exists
        THEN Throw(Err("Web identity token file does not exist: ",
                       TokenFilePath(e, webIdentityTokenFile), k))
      ELSE IF ~file.readable
        THEN Throw(Err("Web identity token file could not be read: EACCES: permission denied, open ",
                       TokenFilePath(e, webIdentityTokenFile), k))
      ELSE Send("AssumeRole", Assign(request, "WebIdentityToken", file.content))

\* lines 155-174: the token-file branch
TokenFileOutcome(request, e, f, webIdentityTokenFile, k) ==
  IF ~isAbsolute(webIdentityTokenFile) /\ e.GITHUB_WORKSPACE = UNDEF
    THEN \* path.join(undefined, ...) throws a TypeError
         Throw(Err("The \"path\" argument must be of type string. Received undefined", <<>>, k))
    ELSE LET webIdentityTokenFilePath == TokenFilePath(e, webIdentityTokenFile)
             file == FileAt(f, webIdentityTokenFilePath)
         IN  IF ~file.exists                                                \* lines 163-165
               THEN Throw(Err("Web identity token file does not exist: ",
                              webIdentityTokenFilePath, k))
             ELSE IF ~file.readable                                         \* lines 171-173
               THEN Throw(Err("Web identity token file could not be read: EACCES: permission denied, open ",
                              webIdentityTokenFilePath, k))
             ELSE \* lines 157, 168-170; assumeFunction is left as set at line 145
                  Send("AssumeRole",
                       Assign(Delete(request, "Tags"), "WebIdentityToken", file.content))

\* One invocation of assumeRole(p) under process.env e and file system f, as
\* invocation k of retryAndBackoff's fn.
assumeRole(p, e, f, k) ==
  LET sourceAccountId == Get(p, "sourceAccountId")
      roleToAssume == Get(p, "roleToAssume")
      roleExternalId == Get(p, "roleExternalId")
      roleDurationSeconds == Get(p, "roleDurationSeconds")
      roleSessionName == Get(p, "roleSessionName")
      region == Get(p, "region")
      webIdentityTokenFile == Get(p, "webIdentityTokenFile")
      webIdentityToken == Get(p, "webIdentityToken")
      roleArn == IF startsWith(roleToAssume, ArnAws) THEN roleToAssume      \* lines 109-117
                 ELSE ArnIam \o sourceAccountId \o RoleSlash \o roleToAssume
      request0 == [RoleArn |-> roleArn,                                     \* lines 134-139
                   RoleSessionName |-> roleSessionName,
                   DurationSeconds |-> roleDurationSeconds,
                   Tags |-> roleSessionTags(e)]
      request == IF isDefined(roleExternalId)                               \* lines 141-143
                   THEN Assign(request0, "ExternalId", roleExternalId)
                   ELSE request0
  IN  IF \E v \in {roleToAssume, roleDurationSeconds, roleSessionName, region} : ~isDefined(v)
        THEN Throw(Err("Missing required input when assuming a Role.", <<>>, k))   \* lines 96-99
      ELSE IF \E v \in {e.GITHUB_REPOSITORY, e.GITHUB_WORKFLOW, e.GITHUB_ACTION,
                        e.GITHUB_ACTOR, e.GITHUB_SHA} : ~isDefined(v)
        THEN Throw(Err("Missing required environment value. Are you running in GitHub Actions?",
                       <<>>, k))                                            \* lines 102-105
      ELSE IF ~startsWith(roleToAssume, ArnAws) /\ ~isDefined(sourceAccountId)
        THEN Throw(Err("Source Account ID is needed if the Role Name is provided and not the Role Arn.",
                       <<>>, k))                                            \* lines 112-115
      ELSE IF isDefined(webIdentityToken)                                   \* lines 147-154
        THEN Send("AssumeRoleWithWebIdentity",
                  Assign(Delete(request, "Tags"), "WebIdentityToken", webIdentityToken))
      ELSE IF isDefined(webIdentityTokenFile)                               \* lines 155-174
        THEN TokenFileOutcome(request, e, f, webIdentityTokenFile, k)
      ELSE Send("AssumeRole", request)                                      \* line 145

----------------------------------------------------------------------------
(* The outside world of a run *)

\* a call made to the outside: op is "getIDToken", "sts", "presign", "post",
\* "setSecret", "exportVariable" or "setFailed"
Ev(op, name, value) == [op |-> op, name |-> name, value |-> value]

\* line 26: /^[a-z0-9-]+$/
RegionMatches(region) ==
  /\ Len(region) > 0
  /\ \A i \in 1..Len(region) : region[i] \in LowerLetters \cup Digits \cup {"-"}

\* lines 74-82, once the assert has passed
getRoleToAssume(e) == <<"a", "r", "n", ":", "a", "w", "s", ":", "i", "a", "m", ":", ":", "<", "S", "O", "M", "E", "_", "A", "C", "C", "O", "U", "N", "T", ">", ":", "r", "o", "l", "e", "/", "g", "i", "t", "h", "u", "b", "-">> \o e.GITHUB_REPOSITORY

\* core.exportVariable's toCommandValue: undefined is written as ''
toCommandValue(v) == IF v = UNDEF THEN <<>> ELSE v

\* core.exportVariable also sets process.env[name]
RECURSIVE ApplyExports(_, _)
ApplyExports(e, evs) ==
  IF Len(evs) = 0 THEN e
  ELSE LET ev == Head(evs)
       IN  ApplyExports(IF ev.op = "exportVariable"
                          THEN [e EXCEPT ![ev.name] = toCommandValue(ev.value)]
                          ELSE e,
                        Tail(evs))

\* lines 229-232
exportRegion(region) ==
  << Ev("exportVariable", "AWS_DEFAULT_REGION", region),
     Ev("exportVariable", "AWS_REGION", region) >>

\* lines 203-227, a bug: the access key id is exported before it is marked secret
exportCredentials_exportsBeforeMasking(c, e) ==
  << Ev("exportVariable", "AWS_ACCESS_KEY_ID", c.accessKeyId),
     Ev("setSecret", "", c.accessKeyId),
     Ev("setSecret", "", c.secretAccessKey),
     Ev("exportVariable", "AWS_SECRET_ACCESS_KEY", c.secretAccessKey) >>
  \o (IF isDefined(c.sessionToken)
        THEN << Ev("setSecret", "", c.sessionToken),
                Ev("exportVariable", "AWS_SESSION_TOKEN", c.sessionToken) >>
      ELSE IF isDefined(e.AWS_SESSION_TOKEN)
        THEN << Ev("exportVariable", "AWS_SESSION_TOKEN", <<>>) >>
      ELSE <<>>)

\* lines 203-227, a bug: the session token of an earlier step is not cleared
exportCredentials_keepsStaleToken(c, e) ==
  << Ev("setSecret", "", c.accessKeyId),
     Ev("exportVariable", "AWS_ACCESS_KEY_ID", c.accessKeyId),
     Ev("setSecret", "", c.secretAccessKey),
     Ev("exportVariable", "AWS_SECRET_ACCESS_KEY", c.secretAccessKey) >>
  \o (IF isDefined(c.sessionToken)
        THEN << Ev("setSecret", "", c.sessionToken),
                Ev("exportVariable", "AWS_SESSION_TOKEN", c.sessionToken) >>
      ELSE <<>>)

\* lines 203-227: the core.* calls exportCredentials makes, in order, under process.env e
exportCredentials(c, e) ==
  << Ev("setSecret", "", c.accessKeyId),
     Ev("exportVariable", "AWS_ACCESS_KEY_ID", c.accessKeyId),
     Ev("setSecret", "", c.secretAccessKey),
     Ev("exportVariable", "AWS_SECRET_ACCESS_KEY", c.secretAccessKey) >>
  \o (IF isDefined(c.sessionToken)
        THEN << Ev("setSecret", "", c.sessionToken),
                Ev("exportVariable", "AWS_SESSION_TOKEN", c.sessionToken) >>
      ELSE IF isDefined(e.AWS_SESSION_TOKEN)
        THEN << Ev("exportVariable", "AWS_SESSION_TOKEN", <<>>) >>
      ELSE <<>>)

\* lines 234-261: the URL formatUrl returns for a signed GetCallerIdentity
\* request: the regional host, the fixed query and the signing key id
PresignedUrl(region, c) ==
  <<"h", "t", "t", "p", "s", ":", "/", "/", "s", "t", "s", ".">> \o region \o <<"/", "?", "A", "c", "t", "i", "o", "n", "=", "G", "e", "t", "C", "a", "l", "l", "e", "r", "I", "d", "e", "n", "t", "i", "t", "y", "&", "V", "e", "r", "s", "i", "o", "n", "=", "2", "0", "1", "1", "-", "0", "6", "-", "1", "5", "&", "K", "=">> \o c.accessKeyId

\* lines 263-274: the Credentials getCredentials builds from the response data
CredentialsOf(data) ==
  Credentials(Get(data, "accessKeyId"), Get(data, "secretAccessKey"),
              Get(data, "sessionToken"))

\* the credentials STS answers a successful assume call with (lines 177-183)
StsCredentials == Credentials(<<"A", "S", "I", "A">>, <<"s", "k", "1">>, <<"t", "k", "1">>)

BrokerKey == <<"A", "K", "I", "A">>
BrokerSecret == <<"s", "k", "2">>
BrokerToken == <<"t", "k", "2">>

\* what axios.post settles with: a rejection, a response without data, or a
\* response whose data is an object
BrokerResponses ==
  { [kind |-> "reject", data |-> <<>>],
    [kind |-> "nodata", data |-> <<>>] }
  \cup
  { [kind |-> "data", data |-> d] :
      d \in { [accessKeyId |-> BrokerKey, secretAccessKey |-> BrokerSecret, sessionToken |-> BrokerToken],
              [accessKeyId |-> BrokerKey, secretAccessKey |-> BrokerSecret],
              [secretAccessKey |-> BrokerSecret, sessionToken |-> BrokerToken],
              [accessKeyId |-> BrokerKey, secretAccessKey |-> <<>>],
              [message |-> <<"n", "o">>] } }

----------------------------------------------------------------------------
(* The inputs of a run *)

Region_us_east_1 == <<"u", "s", "-", "e", "a", "s", "t", "-", "1">>
Region_US_EAST_1 == <<"U", "S", "-", "E", "A", "S", "T", "-", "1">>

RelTokenFile == <<"t">>
AbsTokenFile == <<"/", "t">>
Workspace == <<"/", "w">>
FileToken == <<"j", "w", "t", "f">>
IdToken == <<"j", "w", "t">>

\* core.getInput: '' for an input that is not supplied
Inputs ==
  [ region : {<<>>, Region_us_east_1, Region_US_EAST_1},
    audience : {<<>>},
    accountName : {<<>>, <<"d", "e", "v">>},
    roleDurationSeconds : {<<>>},
    roleSessionName : {<<>>},
    webIdentityTokenFile : {<<>>, RelTokenFile, AbsTokenFile} ]

\* the GitHub Actions environment of the scenario of spec section 8
GitHubEnv ==
  [ GITHUB_REPOSITORY |-> <<"o", "/", "r">>,
    GITHUB_WORKFLOW |-> <<"C", "I", " ", "[", "m", "]">>,
    GITHUB_ACTION |-> <<"r", "u", "n">>,
    GITHUB_ACTOR |-> <<"d", "[", "b", "o", "t", "]">>,
    GITHUB_SHA |-> <<"a", "b", "1">>,
    GITHUB_REF |-> <<"r", "/", "m">>,
    GITHUB_WORKSPACE |-> Workspace,
    AWS_ACCESS_KEY_ID |-> UNDEF,
    AWS_SECRET_ACCESS_KEY |-> UNDEF,
    AWS_SESSION_TOKEN |-> UNDEF,
    AWS_DEFAULT_REGION |-> UNDEF,
    AWS_REGION |-> UNDEF ]

RequiredEnv == {"GITHUB_REPOSITORY", "GITHUB_WORKFLOW", "GITHUB_ACTION",
                "GITHUB_ACTOR", "GITHUB_SHA"}

\* process.env: the GitHub environment, with at most one of the required
\* values missing, with or without a branch ref, a workspace and a session
\* token left by an earlier step
Envs ==
  { [k \in DOMAIN GitHubEnv |->
       IF k \in missing THEN UNDEF
       ELSE IF k = "AWS_SESSION_TOKEN" /\ stale THEN <<"o", "l", "d">>
       ELSE GitHubEnv[k]] :
      missing \in { m \in SUBSET (RequiredEnv \cup {"GITHUB_REF", "GITHUB_WORKSPACE"}) :
                      Cardinality(m \cap RequiredEnv) <= 1 },
      stale \in BOOLEAN }

\* the file system: at most one token file, at the absolute path or under the
\* workspace, readable or not
FileSystems ==
  { <<>> } \cup
  { p :> [exists |-> TRUE, readable |-> r, content |-> FileToken] :
      p \in {AbsTokenFile, join(Workspace, RelTokenFile)}, r \in BOOLEAN }

\* core.getIDToken(audience) resolves to a string or rejects; assumeRole tests
\* the string for truthiness (line 147), so the empty string is among them
OidcOutcomes ==
  { [rejects |-> TRUE, token |-> <<>>],
    [rejects |-> FALSE, token |-> <<>>],
    [rejects |-> FALSE, token |-> IdToken] }

----------------------------------------------------------------------------
(* run, lines 276-313 *)

Init ==
  /\ pc = "Start"
  /\ inputs \in Inputs
  /\ env \in Envs
  /\ fs \in FileSystems
  /\ oidc \in OidcOutcomes
  /\ params = <<>>
  /\ rb = RbIdle
  /\ fnFails = 0
  /\ calls = 0 /\ sleepCount = 0 /\ lastSleep = 0
  /\ issued = NoOutcome /\ log = <<>>
  /\ initialCredentials = NoCredentials /\ credentials = NoCredentials
  /\ url = UNDEF /\ failed = NoError

\* lines 310-312: the catch of run, after the calls lg made so far
Fail(lg, e) ==
  /\ pc' = "Failed"
  /\ failed' = e
  /\ log' = Append(lg, Ev("setFailed", e.text, e.arg))

\* lines 278-286: the inputs are read, the role is named and the identity token
\* is asked for
RunStart ==
  /\ pc = "Start"
  /\ IF ~isDefined(inputs.region)                       \* getInput(..., {required: true})
       THEN Fail(log, Err("Input required and not supplied: ", <<"a", "w", "s", "-", "r", "e", "g", "i", "o", "n">>, 0))
     ELSE IF ~isDefined(inputs.accountName)
       THEN Fail(log, Err("Input required and not supplied: ", <<"a", "c", "c", "o", "u", "n", "t", "-", "n", "a", "m", "e">>, 0))
     ELSE IF ~isDefined(env.GITHUB_REPOSITORY)          \* lines 76-79
       THEN Fail(log, Err("GITHUB_REPOSITORY must be defined.", <<>>, 0))
     ELSE /\ pc' = "getIDToken"                         \* line 286
          /\ log' = Append(log, Ev("getIDToken", "", inputs.audience))
          /\ UNCHANGED failed
  /\ UNCHANGED <<inputs, env, fs, oidc, params, rb, fnFails, calls, sleepCount,
                 lastSleep, issued, initialCredentials, credentials, url>>

\* lines 286-303: getIDToken settles; the region is checked and exported and
\* retryAndBackoff is entered with the params of assumeRole
RunTokenSettled ==
  /\ pc = "getIDToken"
  /\ IF oidc.rejects
       THEN /\ Fail(log, Err("Error message: ", <<>>, 0))
            /\ UNCHANGED <<env, params, rb>>
     ELSE IF ~RegionMatches(inputs.region)              \* lines 288-290
       THEN /\ Fail(log, Err("Region is not valid: ", inputs.region, 0))
            /\ UNCHANGED <<env, params, rb>>
     ELSE /\ log' = log \o exportRegion(inputs.region)  \* line 292
          /\ env' = ApplyExports(env, exportRegion(inputs.region))
          /\ UNCHANGED failed
          /\ IF isDefined(getRoleToAssume(env))         \* line 294
               THEN /\ pc' = "assume"
                    /\ rb' = RbFrame(TRUE, 0, DEFAULT_MAX_RETRIES, DEFAULT_BASE)
                    /\ params' =                        \* lines 281-282, 296-303
                         [ region |-> inputs.region,
                           roleToAssume |-> getRoleToAssume(env),
                           roleDurationSeconds |->
                             IF isDefined(inputs.roleDurationSeconds)
                               THEN inputs.roleDurationSeconds
                               ELSE DEFAULT_ROLE_DURATION_FOR_OIDC_ROLES,
                           roleSessionName |->
                             IF isDefined(inputs.roleSessionName)
                               THEN inputs.roleSessionName
                               ELSE ROLE_SESSION_NAME,
                           webIdentityTokenFile |-> inputs.webIdentityTokenFile,
                           webIdentityToken |-> oidc.token ]
               ELSE /\ pc' = "Done"
                    /\ UNCHANGED <<params, rb>>
  /\ UNCHANGED <<inputs, fs, oidc, fnFails, calls, sleepCount, lastSleep, issued,
                 initialCredentials, credentials, url>>

\* lines 295-303 with 176-183 and 186-201: retryAndBackoff invokes assumeRole;
\* a request that is sent is answered by STS with credentials or an error
RunAssume ==
  /\ pc = "assume"
  /\ LET a == assumeRole(params, env, fs, calls + 1)
     IN  /\ issued' = a
         /\ \E rnd \in {0, RandomSteps - 1} :
              IF a.kind = "throw"
                THEN /\ retryAndBackoff(FALSE, a.error, rnd)
                     /\ UNCHANGED log
                ELSE /\ log' = Append(log, Ev("sts", a.command, a.request.RoleArn))
                     /\ \E ok \in BOOLEAN :
                          IF ok THEN retryAndBackoff(TRUE, StsCredentials, rnd)
                          ELSE retryAndBackoff(FALSE, Err("sts: ", <<>>, calls + 1), rnd)
  /\ UNCHANGED <<pc, inputs, env, fs, oidc, params, fnFails, initialCredentials,
                 credentials, url, failed>>

\* lines 295 and 310-312, a bug: the error of the role assumption is swallowed
\* and the run goes on to the presign
RunAssumeThrown_swallowed ==
  /\ pc = "assume"
  /\ rb.state = "thrown"
  /\ pc' = "presign"
  /\ log' = Append(log, Ev("presign", "", inputs.region))
  /\ UNCHANGED <<inputs, env, fs, oidc, params, rb, fnFails, calls, sleepCount,
                 lastSleep, issued, initialCredentials, credentials, url, failed>>

\* lines 295 and 310-312: retryAndBackoff threw
RunAssumeThrown ==
  /\ pc = "assume"
  /\ rb.state = "thrown"
  /\ Fail(log, rb.error)
  /\ UNCHANGED <<inputs, env, fs, oidc, params, rb, fnFails, calls, sleepCount,
                 lastSleep, issued, initialCredentials, credentials, url>>

\* lines 295 and 305, a bug: the assumed role's credentials are exported as
\* soon as they are there, before the presign and the exchange
RunAssumeReturned_exportsRoleCredentials ==
  /\ pc = "assume"
  /\ rb.state = "returned"
  /\ initialCredentials' = rb.result
  /\ pc' = "presign"
  /\ log' = Append(log \o exportCredentials(rb.result, env), Ev("presign", "", inputs.region))
  /\ UNCHANGED <<inputs, env, fs, oidc, params, rb, fnFails, calls, sleepCount,
                 lastSleep, issued, credentials, url, failed>>

\* lines 295 and 305: retryAndBackoff returned; the presign is started
RunAssumeReturned ==
  /\ pc = "assume"
  /\ rb.state = "returned"
  /\ initialCredentials' = rb.result
  /\ pc' = "presign"
  /\ log' = Append(log, Ev("presign", "", inputs.region))
  /\ UNCHANGED <<inputs, env, fs, oidc, params, rb, fnFails, calls, sleepCount,
                 lastSleep, issued, credentials, url, failed>>

\* lines 305-306, a bug: a presign that failed is tried again after a sleep
RunPresignSettled_retried ==
  /\ pc = "presign"
  /\ \E ok \in BOOLEAN :
       IF ok
         THEN /\ url' = PresignedUrl(inputs.region, initialCredentials)
              /\ pc' = "exchange"
              /\ log' = Append(log, Ev("post", "", inputs.accountName))
              /\ UNCHANGED <<failed, sleepCount>>
         ELSE IF Cardinality({i \in DOMAIN log : log[i].op = "presign"}) < 2
           THEN /\ log' = Append(log, Ev("presign", "", inputs.region))
                /\ sleepCount' = sleepCount + 1
                /\ UNCHANGED <<pc, url, failed>>
         ELSE /\ Fail(log, Err("presign: ", <<>>, 0))
              /\ UNCHANGED <<url, sleepCount>>
  /\ UNCHANGED <<inputs, env, fs, oidc, params, rb, fnFails, calls,
                 lastSleep, issued, initialCredentials, credentials>>

\* lines 305-306: the presign settles; on success the URL is posted to the broker
RunPresignSettled ==
  /\ pc = "presign"
  /\ \E ok \in BOOLEAN :
       IF ok
         THEN /\ url' = PresignedUrl(inputs.region, initialCredentials)
              /\ pc' = "exchange"
              /\ log' = Append(log, Ev("post", "", inputs.accountName))
              /\ UNCHANGED failed
         ELSE /\ Fail(log, Err("presign: ", <<>>, 0))
              /\ UNCHANGED url
  /\ UNCHANGED <<inputs, env, fs, oidc, params, rb, fnFails, calls, sleepCount,
                 lastSleep, issued, initialCredentials, credentials>>

\* lines 306-308 with 269-273: the broker's answer settles; its credentials are exported
RunExchangeSettled ==
  /\ pc = "exchange"
  /\ \E r \in BrokerResponses :
       IF r.kind = "reject"
         THEN Fail(log, Err("Request failed: ", <<>>, 0)) /\ UNCHANGED <<env, credentials>>
       ELSE IF r.kind = "nodata"                        \* data.accessKeyId of undefined
         THEN /\ Fail(log, Err("Cannot read properties of undefined", <<>>, 0))
              /\ UNCHANGED <<env, credentials>>
       ELSE LET exports == exportCredentials(CredentialsOf(r.data), env)
            IN  /\ credentials' = CredentialsOf(r.data)  \* line 306
                /\ log' = log \o exports                 \* line 308
                /\ env' = ApplyExports(env, exports)
                /\ pc' = "Done"
                /\ UNCHANGED failed
  /\ UNCHANGED <<inputs, fs, oidc, params, rb, fnFails, calls, sleepCount,
                 lastSleep, issued, initialCredentials, url>>

Next ==
  \/ RunStart
  \/ RunTokenSettled
  \/ RunAssume
  \/ RunAssumeThrown
  \/ RunAssumeReturned
  \/ RunPresignSettled
  \/ RunExchangeSettled

Spec == Init /\ [][Next]_vars

----------------------------------------------------------------------------
(* SpecRetry: retryAndBackoff over a scripted operation *)

ScriptedValue == Credentials(<<"A", "K">>, <<"S", "K">>, UNDEF)

\* the operation fails its first fnFails invocations (all of them when fnFails = -1)
ScriptedFails(k) == fnFails = -1 \/ k <= fnFails

InitRetry ==
  /\ pc = "retry"
  /\ inputs = <<>> /\ env = <<>> /\ fs = <<>> /\ oidc = UNDEF /\ params = <<>>
  /\ rb \in {RbFrame(r, n, m, DEFAULT_BASE) :
               r \in BOOLEAN, n \in 0..MaxInitialRetries, m \in 0..MaxMaxRetries}
  /\ fnFails \in -1..MaxFailures
  /\ calls = 0 /\ sleepCount = 0 /\ lastSleep = 0
  /\ issued = NoOutcome /\ log = <<>>
  /\ initialCredentials = NoCredentials /\ credentials = NoCredentials
  /\ url = UNDEF /\ failed = NoError

RetryAttempt ==
  /\ pc = "retry"
  /\ calls < CallCap
  /\ \E rnd \in {0, RandomSteps - 1} :
       IF ScriptedFails(calls + 1)
         THEN retryAndBackoff(FALSE, Err("operation failed", <<>>, calls + 1), rnd)
         ELSE retryAndBackoff(TRUE, ScriptedValue, rnd)
  /\ UNCHANGED <<pc, inputs, env, fs, oidc, params, fnFails, issued, log,
                 initialCredentials, credentials, url, failed>>

NextRetry == RetryAttempt

SpecRetry == InitRetry /\ [][NextRetry]_vars

\* The event loop runs the continuation of a settled promise and fires the
\* sleep timer, so an attempt that can be made is made.
FairSpecRetry == SpecRetry /\ WF_vars(RetryAttempt)

----------------------------------------------------------------------------
(* SpecAssume: assumeRole over its params, process.env and the file system *)

FullArn == <<"a", "r", "n", ":", "a", "w", "s", ":", "i", "a", "m", ":", ":", "9", ":", "r", "o", "l", "e", "/", "r">>
BareRole == <<"d", "e", "p">>
AccountId == <<"1", "2", "3">>

\* the params of assumeRole with every required one given
BaseParams ==
  [ roleToAssume |-> FullArn,
    roleDurationSeconds |-> <<"9", "0", "0">>,
    roleSessionName |-> <<"s">>,
    region |-> Region_us_east_1 ]

\* params objects: a full ARN or a bare role name, or one required param
\* missing; with or without a source account, an external id, a token file and
\* an inline token (absent, empty or given)
ParamsChoices ==
  LET required == { BaseParams, [BaseParams EXCEPT !.roleToAssume = BareRole] }
                  \cup { Delete(BaseParams, k) : k \in DOMAIN BaseParams }
      optional == [ sourceAccountId : {UNDEF, AccountId},
                    roleExternalId : {UNDEF, <<"x">>},
                    webIdentityTokenFile : {UNDEF, RelTokenFile, AbsTokenFile},
                    webIdentityToken : {UNDEF, <<>>, IdToken} ]
  IN  { [k \in { j \in DOMAIN o : o[j] # UNDEF } |-> o[k]] @@ r :
          r \in required, o \in optional }

InitAssume ==
  /\ pc = "assumeRole"
  /\ inputs = <<>>
  /\ env \in { e \in Envs : e.AWS_SESSION_TOKEN = UNDEF }
  /\ fs \in FileSystems
  /\ oidc = [rejects |-> FALSE, token |-> <<>>]
  /\ params \in ParamsChoices
  /\ rb = RbIdle
  /\ fnFails = 0
  /\ calls = 0 /\ sleepCount = 0 /\ lastSleep = 0
  /\ issued = NoOutcome /\ log = <<>>
  /\ initialCredentials = NoCredentials /\ credentials = NoCredentials
  /\ url = UNDEF /\ failed = NoError

\* lines 84-176: assumeRole is called once, up to the request it sends
AssumeRoleCall ==
  /\ pc = "assumeRole"
  /\ calls = 0
  /\ calls' = 1
  /\ issued' = assumeRole(params, env, fs, 1)
  /\ log' = IF issued'.kind = "send"
              THEN Append(log, Ev("sts", issued'.command, issued'.request.RoleArn))
              ELSE log
  /\ UNCHANGED <<pc, inputs, env, fs, oidc, params, rb, fnFails, sleepCount,
                 lastSleep, initialCredentials, credentials, url, failed>>

NextAssume == AssumeRoleCall

SpecAssume == InitAssume /\ [][NextAssume]_vars

----------------------------------------------------------------------------
(* The session tags of assumeRole, over the values of the environment *)

MaxNameLen == 3

\* the strings over an alphabet, of at most n characters
StringsOver(alphabet, n) == UNION { [1..k -> alphabet] : k \in 0..n }

\* GITHUB_ACTOR: a letter, the brackets of a bot, the sentinel
ActorNames == StringsOver({"a", "[", "]", "_"}, MaxNameLen)

\* a name of n characters, all of them "a" but the k-th, which is c
LongName(n, k, c) == [i \in 1..n |-> IF i = k THEN c ELSE "a"]

\* GITHUB_WORKFLOW: short names over a letter, a digit, a space, a sign of the
\* class, a sign of its range .-@ and a sign outside of it; and names about
\* MAX_TAG_VALUE_LENGTH long, with a sign outside the class at either side of
\* the cut
WorkflowNames ==
  StringsOver({"A", "1", " ", "-", ";", "#"}, MaxNameLen)
    \cup { LongName(n, k, c) :
             n \in (MAX_TAG_VALUE_LENGTH - 1)..(MAX_TAG_VALUE_LENGTH + 2),
             k \in {1, MAX_TAG_VALUE_LENGTH, MAX_TAG_VALUE_LENGTH + 1},
             c \in {"a", "#"} }

\* GITHUB_REF: a branch, a branch with a sign outside the class, a long branch
RefNames ==
  { <<"r", "/", "m">>, <<"r", "/", "#", "1">>,
    LongName(MAX_TAG_VALUE_LENGTH + 1, 1, "r") }

TagEnvs ==
  { [GitHubEnv EXCEPT !.GITHUB_ACTOR = s] : s \in ActorNames }
    \cup { [GitHubEnv EXCEPT !.GITHUB_WORKFLOW = w] : w \in WorkflowNames }
    \cup { [GitHubEnv EXCEPT !.GITHUB_REF = r] : r \in RefNames }

\* assumeRole is called with its required params and no token, so that the
\* request carries the session tags
InitTags ==
  /\ pc = "assumeRole"
  /\ inputs = <<>>
  /\ env \in TagEnvs
  /\ fs = <<>>
  /\ oidc = [rejects |-> FALSE, token |-> <<>>]
  /\ params = BaseParams
  /\ rb = RbIdle
  /\ fnFails = 0
  /\ calls = 0 /\ sleepCount = 0 /\ lastSleep = 0
  /\ issued = NoOutcome /\ log = <<>>
  /\ initialCredentials = NoCredentials /\ credentials = NoCredentials
  /\ url = UNDEF /\ failed = NoError

SpecTags == InitTags /\ [][NextAssume]_vars

----------------------------------------------------------------------------
(* Claims about retryAndBackoff *)

C1_Pre == rb.isRetryable /\ rb.retries0 = 0 /\ fnFails >= 0 /\ rb.maxRetries > fnFails

\* C1: with isRetryable = true, initial retries = 0 and an operation that fails
\* its first N invocations and succeeds on invocation N+1, maxRetries > N,
\* retryAndBackoff eventually returns the success value, never throws, and has
\* invoked the operation exactly N+1 times when it returns (and never more).
C1_EventuallyReturnsSuccess ==
  /\ [](C1_Pre => /\ rb.state # "thrown"
                  /\ calls <= fnFails + 1
                  /\ (rb.state = "returned" =>
                        rb.result = ScriptedValue /\ calls = fnFails + 1))
  /\ [](C1_Pre => <>(rb.state = "returned" /\ rb.result = ScriptedValue
                     /\ calls = fnFails + 1))

\* C1's case: the operation failed at least twice and the call then returned
C1_Witness ==
  C1_Pre /\ fnFails >= 2 /\ rb.state = "returned" /\ calls = fnFails + 1
         /\ sleepCount = fnFails

C2_Pre == ~rb.isRetryable /\ fnFails # 0

\* C2: with isRetryable = false and an operation whose first invocation fails,
\* retryAndBackoff throws that first error after exactly one invocation and
\* sleep is never invoked.
C2_NotRetryableFailsAtOnce ==
  C2_Pre => /\ sleepCount = 0
            /\ calls <= 1
            /\ rb.state # "returned"
            /\ (calls = 1 => rb.state = "thrown"
                             /\ rb.error = Err("operation failed", <<>>, 1))

\* C2's case: a non-retryable call whose operation has failed
C2_Witness == C2_Pre /\ calls = 1 /\ rb.state = "thrown"

C3_Pre == rb.isRetryable /\ rb.retries0 = 0 /\ rb.maxRetries >= 1 /\ fnFails = -1

\* C3: with isRetryable = true, initial retries = 0, maxRetries = M >= 1 and an
\* operation that always fails, the operation is invoked at most M times, the
\* call throws once it has been invoked M times, and the error thrown is the
\* one raised by the last (M-th) invocation.
C3_ExhaustionThrowsLastError ==
  C3_Pre => /\ calls <= rb.maxRetries
            /\ rb.state # "returned"
            /\ (calls = rb.maxRetries <=> rb.state = "thrown")
            /\ (rb.state = "thrown" =>
                  rb.error = Err("operation failed", <<>>, rb.maxRetries))

\* C3's case: the default maxRetries = 12 exhausted by an operation that always fails
C3_Witness ==
  C3_Pre /\ rb.maxRetries = DEFAULT_MAX_RETRIES /\ rb.state = "thrown"
         /\ calls = DEFAULT_MAX_RETRIES /\ rb.error.attempt = DEFAULT_MAX_RETRIES

\* C20: retryAndBackoff ends for every choice of its parameters: with
\* isRetryable = true and an operation that always fails it throws in the end,
\* for every maxRetries >= 0 and every initial retries >= 0; it never goes on
\* retrying. A call that ends does so within MaxMaxRetries invocations, fewer
\* than CallCap: once the operation was invoked CallCap times the call has thrown.
C20_AlwaysFailingEnds ==
  rb.isRetryable /\ fnFails = -1 /\ calls = CallCap => rb.state = "thrown"

----------------------------------------------------------------------------
(* Claims about run *)

\* the places of the log where a call of the given kind was made
At(op) == { i \in DOMAIN log : log[i].op = op }
Exports(names) == { i \in At("exportVariable") : log[i].name \in names }
Before(A, B) == \A i \in A, j \in B : i < j

CredentialNames == {"AWS_ACCESS_KEY_ID", "AWS_SECRET_ACCESS_KEY", "AWS_SESSION_TOKEN"}
RegionNames == {"AWS_DEFAULT_REGION", "AWS_REGION"}
NetworkCalls == At("getIDToken") \cup At("sts") \cup At("post")

\* C4: in every run that has ended in Failed, none of AWS_ACCESS_KEY_ID,
\* AWS_SECRET_ACCESS_KEY, AWS_SESSION_TOKEN has been exported by the run.
C4_FailedExportsNoCredentials ==
  pc = "Failed" => Exports(CredentialNames) = {}

\* C4's case: a run that failed at its last stage, after the broker was asked
C4_Witness == pc = "Failed" /\ At("post") # {}

\* C5: the stages happen in order and none is skipped: an STS call only after
\* the region was validated and exported, the presign only after
\* retryAndBackoff returned the assumed credentials, the broker POST only after
\* the presign gave a URL, the credential exports only after the POST; a run
\* that is Done has exported credentials; setFailed, once called, is the last
\* call of the run.
C5_StagesInOrder ==
  /\ At("sts") # {} => RegionMatches(inputs.region) /\ Exports(RegionNames) # {}
  /\ Before(Exports(RegionNames), At("sts"))
  /\ At("presign") # {} => /\ At("sts") # {}
                           /\ rb.state = "returned"
                           /\ issued.kind = "send"
                           /\ initialCredentials = StsCredentials
  /\ Before(At("sts"), At("presign"))
  /\ At("post") # {} => At("presign") # {} /\ url # UNDEF
  /\ Before(At("presign"), At("post"))
  /\ Exports(CredentialNames) # {} => At("post") # {}
  /\ Before(At("post"), Exports(CredentialNames))
  /\ pc = "Done" => Exports(CredentialNames) # {}
  /\ At("setFailed") \subseteq {Len(log)}
  /\ pc = "Failed" <=> At("setFailed") # {}

\* C5's case: a run that is Done after an STS call that failed and one that succeeded
C5_Witness == pc = "Done" /\ Cardinality(At("sts")) >= 2

\* the region is supplied and does not match the regex; nothing else is wrong
\* with the required inputs
InvalidRegion ==
  /\ isDefined(inputs.region) /\ ~RegionMatches(inputs.region)
  /\ isDefined(inputs.accountName)
  /\ isDefined(env.GITHUB_REPOSITORY)

\* C8: when the region does not match the regex, no network call (identity-
\* token fetch, STS call, broker POST) is ever made, no region variable is
\* exported, and the run ends Failed with the message naming the region.
C8_InvalidRegionFailsBeforeNetwork ==
  InvalidRegion =>
    /\ NetworkCalls = {}
    /\ Exports(RegionNames) = {}
    /\ pc # "Done"
    /\ (pc = "Failed" => failed = Err("Region is not valid: ", inputs.region, 0))

\* the token file of the run is configured, its path resolves, and no file is there
TokenFileMissing ==
  /\ isDefined(inputs.webIdentityTokenFile)
  /\ isAbsolute(inputs.webIdentityTokenFile) \/ env.GITHUB_WORKSPACE # UNDEF
  /\ ~FileAt(fs, TokenFilePath(env, inputs.webIdentityTokenFile)).exists

\* C9: whenever a token file is configured and the resolved file does not
\* exist, a run that gets to the role assumption issues no STS call and ends
\* Failed with the message naming the resolved path.
C9_MissingTokenFileFailsBeforeSts ==
  TokenFileMissing /\ pc \notin {"Start", "getIDToken"} /\ params # <<>> =>
    /\ At("sts") = {}
    /\ pc # "Done"
    /\ (pc = "Failed" =>
          /\ failed.text = "Web identity token file does not exist: "
          /\ failed.arg = TokenFilePath(env, inputs.webIdentityTokenFile))

\* the latest assumeRole invocation raised a token-file error (lines 163-173)
TokenFileErrorRaised ==
  /\ issued.kind = "throw"
  /\ issued.error.text \in
       {"Web identity token file does not exist: ",
        "Web identity token file could not be read: EACCES: permission denied, open "}

\* C10: once a token-file error has been raised by assumeRole, assumeRole has
\* been invoked once, no backoff sleep has been invoked, and retryAndBackoff
\* has thrown (so that the run goes to Failed).
C10_TokenFileErrorNotRetried ==
  pc \in {"assume", "Failed"} /\ TokenFileErrorRaised =>
    /\ calls = 1
    /\ sleepCount = 0
    /\ rb.state = "thrown"

\* the latest assumeRole invocation raised a configuration error (lines 96-117)
ConfigurationErrorRaised ==
  /\ issued.kind = "throw"
  /\ issued.error.text \in
       {"Missing required input when assuming a Role.",
        "Missing required environment value. Are you running in GitHub Actions?",
        "Source Account ID is needed if the Role Name is provided and not the Role Arn."}

\* C11: a configuration error is reported at once: the check that detects it
\* runs once per run, no backoff sleep is invoked, and the run goes to Failed.
\* For the check of getRoleToAssume: no assumeRole invocation and no sleep; for
\* the checks inside assumeRole: one invocation, no sleep, retryAndBackoff has
\* thrown.
C11_ConfigurationErrorNotRetried ==
  /\ failed.text = "GITHUB_REPOSITORY must be defined." => calls = 0 /\ sleepCount = 0
  /\ pc \in {"assume", "Failed"} /\ ConfigurationErrorRaised =>
       /\ calls = 1
       /\ sleepCount = 0
       /\ rb.state = "thrown"

\* C12: a run whose broker answered with an incomplete credential set
\* (accessKeyId or secretAccessKey missing or empty) ends Failed without
\* exporting: every run that is Done holds, and every export of
\* AWS_ACCESS_KEY_ID and AWS_SECRET_ACCESS_KEY publishes, a non-empty value.
C12_IncompleteCredentialsNotExported ==
  /\ pc = "Done" => /\ isDefined(credentials.accessKeyId)
                    /\ isDefined(credentials.secretAccessKey)
  /\ \A i \in Exports({"AWS_ACCESS_KEY_ID", "AWS_SECRET_ACCESS_KEY"}) :
       isDefined(log[i].value)

\* C14: every non-empty value published as AWS_ACCESS_KEY_ID,
\* AWS_SECRET_ACCESS_KEY or AWS_SESSION_TOKEN was marked secret by an earlier
\* core.setSecret call: no credential value is published unmasked.
C14_MaskedBeforeExported ==
  \A i \in Exports(CredentialNames) :
    isDefined(log[i].value) =>
      \E j \in At("setSecret") : j < i /\ log[j].value = log[i].value

\* C14's case: a run that published all three values, the session token last
C14_Witness ==
  /\ pc = "Done"
  /\ isDefined(credentials.sessionToken)
  /\ Cardinality(Exports(CredentialNames)) = 3
  /\ log[Len(log)] = Ev("exportVariable", "AWS_SESSION_TOKEN", credentials.sessionToken)
  /\ log[Len(log) - 1] = Ev("setSecret", "", credentials.sessionToken)

\* C15: the step that exports the credentials never leaves a session token of
\* an earlier run in AWS_SESSION_TOKEN: with no session token among the
\* credentials, a value that was set and non-empty has been exported as the
\* empty string; with a session token, AWS_SESSION_TOKEN equals that token.
C15_SessionTokenNeverStale ==
  [][pc = "exchange" /\ pc' = "Done" =>
       IF isDefined(credentials'.sessionToken)
         THEN env'.AWS_SESSION_TOKEN = credentials'.sessionToken
         ELSE /\ ~isDefined(env'.AWS_SESSION_TOKEN)
              /\ isDefined(env.AWS_SESSION_TOKEN) =>
                   /\ env'.AWS_SESSION_TOKEN = <<>>
                   /\ log'[Len(log')] = Ev("exportVariable", "AWS_SESSION_TOKEN", <<>>)]_vars

\* C15's case: credentials without a session token cleared the token of an
\* earlier step
C15_Witness ==
  /\ pc = "Done"
  /\ ~isDefined(credentials.sessionToken)
  /\ env.AWS_SESSION_TOKEN = <<>>
  /\ log[Len(log)] = Ev("exportVariable", "AWS_SESSION_TOKEN", <<>>)

\* C19: the presign and the broker POST are each attempted at most once (and so
\* is the identity-token fetch); every backoff sleep follows a failed role
\* assumption; a failure of the presign or of the POST is followed at once by
\* setFailed.
C19_PresignAndPostAttemptedOnce ==
  /\ Cardinality(At("getIDToken")) <= 1
  /\ Cardinality(At("presign")) <= 1
  /\ Cardinality(At("post")) <= 1
  /\ At("presign") # {} => /\ calls = Cardinality(At("sts"))
                           /\ sleepCount = calls - 1
  /\ failed.text = "presign: " =>
       pc = "Failed" /\ log[Len(log) - 1].op = "presign"
  /\ failed.text \in {"Request failed: ", "Cannot read properties of undefined"} =>
       pc = "Failed" /\ log[Len(log) - 1].op = "post"

\* C19's case: the role assumption was repeated and the POST then failed
C19_Witness ==
  /\ pc = "Failed"
  /\ failed.text = "Request failed: "
  /\ Cardinality(At("sts")) >= 3
  /\ Cardinality(At("post")) = 1

----------------------------------------------------------------------------
(* Claims about assumeRole *)

TokenSupplied ==
  isDefined(Get(params, "webIdentityToken")) \/ isDefined(Get(params, "webIdentityTokenFile"))

\* C6: a request built by assumeRole carries exactly one of Tags and
\* WebIdentityToken: with a web-identity token supplied (inline or by a token
\* file) it has no Tags, and with none supplied it has the session tags.
C6_TagsXorToken ==
  issued.kind = "send" =>
    /\ ("Tags" \in DOMAIN issued.request) # ("WebIdentityToken" \in DOMAIN issued.request)
    /\ TokenSupplied => "Tags" \notin DOMAIN issued.request
    /\ ~TokenSupplied => /\ "Tags" \in DOMAIN issued.request
                         /\ issued.request.Tags = roleSessionTags(env)

\* C6's case: a request built from a token file
C6_Witness ==
  /\ issued.kind = "send"
  /\ ~isDefined(Get(params, "webIdentityToken"))
  /\ isDefined(Get(params, "webIdentityTokenFile"))
  /\ issued.request.WebIdentityToken = FileToken

\* C7: the request is issued with AssumeRoleWithWebIdentity exactly when it
\* carries a web-identity token, inline or read from the token file, and with
\* AssumeRole exactly when it carries none.
C7_CommandMatchesToken ==
  issued.kind = "send" =>
    /\ issued.command \in {"AssumeRole", "AssumeRoleWithWebIdentity"}
    /\ issued.command = "AssumeRoleWithWebIdentity"
         <=> "WebIdentityToken" \in DOMAIN issued.request

\* C13: a role identifier with the ARN prefix is the RoleArn of the request,
\* unchanged, whatever the source account; a bare role name with a source
\* account gives exactly arn:aws:iam::<account>:role/<name>; a bare role name
\* without a source account fails before any request is sent.
C13_RoleArnResolution ==
  calls = 1 /\ isDefined(Get(params, "roleToAssume")) =>
    LET role == params.roleToAssume
        account == Get(params, "sourceAccountId")
        hasPrefix == Len(role) >= 7 /\ SubSeq(role, 1, 7) = <<"a", "r", "n", ":", "a", "w", "s">>
    IN  /\ hasPrefix /\ issued.kind = "send" => issued.request.RoleArn = role
        /\ ~hasPrefix /\ isDefined(account) /\ issued.kind = "send" =>
             issued.request.RoleArn =
               <<"a", "r", "n", ":", "a", "w", "s", ":", "i", "a", "m", ":", ":">>
                 \o account \o <<":", "r", "o", "l", "e", "/">> \o role
        /\ ~hasPrefix /\ ~isDefined(account) =>
             /\ issued.kind = "throw"
             /\ At("sts") = {}
             /\ issued.error.text \in
                  {"Missing required input when assuming a Role.",
                   "Missing required environment value. Are you running in GitHub Actions?",
                   "Source Account ID is needed if the Role Name is provided and not the Role Arn."}

\* C13's case: a bare role name and a source account made the ARN of a request
C13_Witness ==
  /\ calls = 1
  /\ issued.kind = "send"
  /\ params.roleToAssume = BareRole
  /\ params.sourceAccountId = AccountId
  /\ issued.request.RoleArn =
       <<"a", "r", "n", ":", "a", "w", "s", ":", "i", "a", "m", ":", ":", "1", "2", "3",
         ":", "r", "o", "l", "e", "/", "d", "e", "p">>

----------------------------------------------------------------------------
(* Claims about the session tags and the sanitizers *)

\* the tag-value class as the specification lists it: letters, separators,
\* numbers and _ : / = + . - @
ListedTagClass(c) ==
  \/ c \in LowerLetters \cup UpperLetters
  \/ c = " "
  \/ c \in Digits
  \/ c \in {"_", ":", "/", "=", "+", ".", "-", "@"}

TagsSent == issued.kind = "send" /\ "Tags" \in DOMAIN issued.request

\* C16: every session tag attached to a request has a value of at most 256
\* characters, none of them outside the allowed tag-value class, whatever the
\* values of the environment.
C16_TagValuesLegal ==
  TagsSent =>
    \A i \in DOMAIN issued.request.Tags :
      LET v == issued.request.Tags[i].Value
      IN  /\ Len(v) <= MAX_TAG_VALUE_LENGTH
          /\ \A j \in 1..Len(v) : ListedTagClass(v[j])

\* C17: for every actor string s, sanitizeGithubActor(s) has the length of s,
\* holds no bracket, holds the sentinel where s holds a bracket and the
\* character of s elsewhere; it is the value of the Actor tag.
C17_ActorSanitized ==
  env.GITHUB_ACTOR # UNDEF =>
    LET s == env.GITHUB_ACTOR
        t == sanitizeGithubActor(s)
    IN  /\ Len(t) = Len(s)
        /\ \A i \in 1..Len(s) :
             /\ t[i] \notin {"[", "]"}
             /\ s[i] \in {"[", "]"} => t[i] = "_"
             /\ s[i] \notin {"[", "]"} => t[i] = s[i]
        /\ TagsSent => issued.request.Tags[5] = Tag("Actor", t)

\* C17's case: the Actor tag of a request made for an actor with two brackets
C17_Witness ==
  /\ TagsSent
  /\ env.GITHUB_ACTOR = <<"a", "[", "]">>
  /\ issued.request.Tags[5].Value = <<"a", "_", "_">>

\* C18: for every workflow name s, sanitizeGithubWorkflowName(s) has at most
\* 256 characters, all of them of the listed class, and is the first 256
\* characters of s with each character outside the class replaced by the
\* sentinel and each character of the class kept; it is the value of the
\* Workflow tag.
C18_WorkflowNameSanitized ==
  calls = 1 /\ env.GITHUB_WORKFLOW # UNDEF =>
    LET s == env.GITHUB_WORKFLOW
        t == sanitizeGithubWorkflowName(s)
    IN  /\ Len(t) <= MAX_TAG_VALUE_LENGTH
        /\ Len(t) = IF Len(s) <= MAX_TAG_VALUE_LENGTH THEN Len(s) ELSE MAX_TAG_VALUE_LENGTH
        /\ \A i \in 1..Len(t) :
             /\ ListedTagClass(t[i])
             /\ t[i] = IF ListedTagClass(s[i]) THEN s[i] ELSE "_"
        /\ TagsSent => issued.request.Tags[3] = Tag("Workflow", t)

====
